---- MODULE Spec2Model ----
(***************************************************************************)
(* Admin API of fim-ai-chat: the users, codes and database-reset route     *)
(* handlers over the Prisma store.  One action per HTTP handler; a handler *)
(* runs from the idle state to a reply, and Return hands the reply back.   *)
(***************************************************************************)
EXTENDS Integers, Sequences, FiniteSets, TLC

\* ------------------------------------------------------------------ bounds
MaxUsers    == 3   \* user ids ever issued
MaxCodes    == 4   \* code ids ever issued (both code tables)
MaxRequests == 2   \* requests served in one behaviour

VARIABLES
  db,          \* the store: one field per table of the Prisma schema
  nextUserId,  \* next id the store issues for a user row
  nextCodeId,  \* next id the store issues for a code row
  execLog,     \* shell commands the request being answered has run
  req,         \* the request being answered
  resp,        \* its response
  pc,          \* "idle" (no request in progress) or "replied"
  served,      \* number of requests served so far
  clients,     \* requests in progress at the same time: where each stands
  title,       \* the chat-title editor of the layout component
  quota,       \* a permission row's usage counter, and the clock
  picker       \* the model picker of the layout component

vars ==
  <<db, nextUserId, nextCodeId, execLog, req, resp, pc, served, clients,
    title, quota, picker>>

\* ------------------------------------------------------------- JS helpers
\* An optional JSON value is a sequence of length 0 (absent) or 1.
None == <<>>
Some(x) == <<x>>

\* JS truthiness of a string / of an id / of an optional number.
TruthyStr(s) == s # ""
TruthyId(i) == i # 0
TruthyNum(o) == o # None /\ o[1] # 0

\* String.prototype.trim on the strings the model uses.
Trim(s) ==
  CASE s = "out\n" -> "out"
    [] s = " RESET DATABASE " -> "RESET DATABASE"
    [] OTHER -> s

\* Case folding of the usernames the model uses (Prisma mode: 'insensitive').
ToLower(s) ==
  CASE s = "A" -> "a"
    [] s = "B" -> "b"
    [] s = "C" -> "c"
    [] OTHER -> s

\* ------------------------------------------------------------- the schema
UserRoles == {"ADMIN", "USER", "GUEST"}

\* Columns of model UserPermission that a create may set.
UserPermissionColumns ==
  {"id", "userId", "permissions", "limitType", "limitPeriod", "tokenLimit",
   "costLimit", "tokenUsed", "lastResetAt", "createdAt", "updatedAt"}

UserRow(username, email, password, role) ==
  [username |-> username, email |-> email, password |-> password,
   role |-> role, isActive |-> TRUE, canShareAccessCode |-> TRUE,
   invitedBy |-> 0, usedInviteCode |-> None,
   usedAccessCode |-> None, hostUserId |-> 0]

DefaultSettings ==
  [theme |-> "light", language |-> "zh-CN", enableMarkdown |-> TRUE,
   enableLatex |-> TRUE, enableCodeHighlight |-> TRUE, messagePageSize |-> 50]

PermissionRow(tags) ==
  [permissions |-> tags, limitType |-> "none", limitPeriod |-> "monthly",
   tokenLimit |-> None, tokenUsed |-> 0]

InviteRow(code, createdBy, maxUses, expiresAt) ==
  [code |-> code, createdBy |-> createdBy, isUsed |-> FALSE, usedBy |-> 0,
   usedAt |-> None, expiresAt |-> expiresAt, maxUses |-> maxUses,
   currentUses |-> 0]

AccessRow(code, createdBy, expiresAt) ==
  [code |-> code, createdBy |-> createdBy, isActive |-> TRUE,
   expiresAt |-> expiresAt, maxUses |-> None, currentUses |-> 0,
   allowedModelIds |-> None]

\* Function f without the keys in S / with key k bound to v.
Without(f, S) == [x \in (DOMAIN f) \ S |-> f[x]]
With(f, k, v) == [x \in (DOMAIN f) \cup {k} |-> IF x = k THEN v ELSE f[x]]

\* bcrypt.hash(password, 12): the stored value is not the password.
Hash(password) == <<"bcrypt", 12, password>>

EmptyDb ==
  [users |-> <<>>, settings |-> <<>>, permissions |-> <<>>,
   conversations |-> {}, messages |-> {}, tokenUsage |-> {},
   inviteCodes |-> <<>>, accessCodes |-> <<>>, seeded |-> FALSE]

\* A store the program can be in: an admin, a regular user who owns chat
\* history and codes, and reference data seeded.
InitialDb ==
  [users |->
     (1 :> UserRow("a", "", Hash("pw"), "ADMIN")) @@
     (2 :> [UserRow("b", "e1", Hash("pw"), "USER") EXCEPT
              !.invitedBy = 1, !.usedInviteCode = Some(<<"fimai", 1>>)]),
   settings |-> (1 :> DefaultSettings) @@ (2 :> DefaultSettings),
   permissions |-> (2 :> [PermissionRow({}) EXCEPT !.tokenUsed = 7]),
   conversations |-> {[id |-> 1, userId |-> 2], [id |-> 2, userId |-> 1]},
   messages |-> {[id |-> 1, conversationId |-> 1, userId |-> 2],
                 [id |-> 2, conversationId |-> 2, userId |-> 1]},
   tokenUsage |-> {[id |-> 1, userId |-> 2, conversationId |-> Some(1)],
                   [id |-> 2, userId |-> 1, conversationId |-> Some(2)]},
   inviteCodes |->
     (1 :> [InviteRow(<<"fimai", 1>>, 1, 1, None) EXCEPT
              !.isUsed = TRUE, !.usedBy = 2, !.usedAt = Some(1),
              !.currentUses = 1]) @@
     (2 :> InviteRow(<<"fimai", 2>>, 2, 3, Some(9))),
   accessCodes |->
     (3 :> [AccessRow(<<"fimai", 3>>, 2, None) EXCEPT
              !.allowedModelIds = Some("m1,m2")]),
   seeded |-> TRUE]

\* The parts of the state the admin API does not use.
NoTitle ==
  [chatTitle |-> <<>>, hasCallback |-> FALSE, editableTitle |-> <<>>,
   isEditingTitle |-> FALSE, passed |-> None]

NoQuota ==
  [limitPeriod |-> "monthly", tokenUsed |-> 0, lastResetAt |-> 0, now |-> 0,
   recorded |-> 0]

NoPicker == [models |-> <<>>, rendered |-> FALSE, threw |-> FALSE,
             groupedModels |-> <<>>]

\* --------------------------------------------------- requests and replies
NoReq ==
  [op |-> "none", adminUserId |-> 0, failAt |-> 0, userId |-> 0,
   username |-> "", email |-> "", password |-> "", role |-> "",
   action |-> "", isActive |-> "undefined", canShareAccessCode |-> TRUE,
   permissions |-> {}, type |-> "", codeId |-> 0, maxUses |-> None,
   expiresAt |-> None, confirmText |-> ""]

NoResp == [status |-> 0, body |-> [error |-> ""]]

\* The result of running a handler: the store it leaves, the reply, the id
\* counters consumed, the downstream calls made and the commands run.
Result(d, status, body, calls) ==
  [db |-> d, status |-> status, body |-> body, calls |-> calls,
   newUsers |-> 0, newCodes |-> 0, log |-> <<>>]

Error(d, status, msg, calls) == Result(d, status, [error |-> msg], calls)

\* Faulty variant of Caught: the reply passes on what the exception said.
CaughtWithDetails(d, msg, calls) ==
  Result(d, 500, [error |-> msg, details |-> "exception message"], calls)

\* The catch block that wraps the body of every handler: the exception is
\* logged and the reply is 500 with the fixed message of the handler.
Caught(d, msg, calls) == Error(d, 500, msg, calls)

\* The downstream call number n throws in this request.
Throws(r, n) == r.failAt = n

\* -------------------------------------------------------------- @/lib/auth
\* checkUserPermission(userId, tag): the caller exists, is not disabled, and
\* is an administrator or has the tag in its permission row.
checkUserPermission(d, userId, tag) ==
  /\ userId \in DOMAIN d.users
  /\ d.users[userId].isActive
  /\ \/ d.users[userId].role = "ADMIN"
     \/ /\ userId \in DOMAIN d.permissions
        /\ tag \in d.permissions[userId].permissions

\* Faulty variant of AccessDenied: a gate that denies nobody.
GateOpen(hasPermission) == FALSE

\* The permission gate every handler applies to the result of the check:
\* `if (!hasPermission) return 403`.
AccessDenied(hasPermission) == ~hasPermission

\* ---------------------------------------------------------- @/lib/db/admin
\* getAllUsers: a read of the users table.
getAllUsers(d) == DOMAIN d.users

\* updateUserStatus(userId, isActive): writes the flag of one user row; an
\* undefined value writes nothing.
updateUserStatus(d, userId, isActive) ==
  IF isActive = "undefined" THEN d
  ELSE [d EXCEPT !.users[userId].isActive = (isActive = "true")]

\* updateUserAccessCodePermission(userId, canShareAccessCode).
updateUserAccessCodePermission(d, userId, canShare) ==
  [d EXCEPT !.users[userId].canShareAccessCode = canShare]

\* updateUserPermissions(userId, data): writes the permission row of the
\* user, creating it when the user has none.
updateUserPermissions(d, userId, tags) ==
  [d EXCEPT !.permissions =
     IF userId \in DOMAIN d.permissions
     THEN [d.permissions EXCEPT ![userId].permissions = tags]
     ELSE With(d.permissions, userId, PermissionRow(tags))]

\* ------------------------------------------------- /api/admin/users: GET
UsersGET(d, r) ==
  IF ~TruthyId(r.adminUserId)
  THEN Error(d, 400, "adminUserId is required", 0)
  ELSE IF Throws(r, 1) THEN Caught(d, "Failed to fetch users", 1)
  ELSE IF AccessDenied(checkUserPermission(d, r.adminUserId, "admin_panel"))
  THEN Error(d, 403, "Access denied", 1)
  ELSE IF Throws(r, 2) THEN Caught(d, "Failed to fetch users", 2)
  ELSE Result(d, 200, [users |-> getAllUsers(d)], 2)

\* ------------------------------------------------ /api/admin/users: POST
\* Faulty variant of InsensitiveEquals: the filter without its mode.
CaseSensitiveEquals(stored, given) == stored = given

\* Prisma string filter { equals, mode: 'insensitive' }.
InsensitiveEquals(stored, given) == ToLower(stored) = ToLower(given)

\* prisma.user.findFirst({ where: { OR: [username insensitive, email] } }).
ExistingUser(d, username, email) ==
  \E u \in DOMAIN d.users :
    \/ /\ d.users[u].username # ""
       /\ InsensitiveEquals(d.users[u].username, username)
    \/ /\ TruthyStr(email)
       /\ d.users[u].email = email

\* The @unique columns of model User (exact match; null is never a clash).
UserUniqueViolation(d, username, email) ==
  \E u \in DOMAIN d.users :
    \/ d.users[u].username # "" /\ d.users[u].username = username
    \/ d.users[u].email # "" /\ d.users[u].email = email

\* The fields the handler passes to prisma.userPermission.create.
PermissionCreateData ==
  {"userId", "allowedModelIds", "tokenLimit", "canShareAccess", "isActive"}

\* Prisma rejects a create whose data names a field the model does not have.
CreateDataValid(fields, columns) == fields \subseteq columns

UsersPOST(d, r, uid) ==
  LET role == IF r.role = "" THEN "USER" ELSE r.role
      fail(dd, n) == Caught(dd, "Failed to create user", n)
      d1 == [d EXCEPT !.users =
               With(d.users, uid,
                    UserRow(r.username, r.email, Hash(r.password), role))]
      d2 == [d1 EXCEPT !.settings = With(d1.settings, uid, DefaultSettings)]
      d3 == [d2 EXCEPT !.permissions =
               With(d2.permissions, uid, PermissionRow({}))]
      created(dd, n) ==
        [Result(dd, 201,
                [id |-> uid, username |-> r.username, email |-> r.email,
                 role |-> role, isActive |-> TRUE], n)
         EXCEPT !.newUsers = 1]
  IN
  IF ~TruthyId(r.adminUserId) \/ ~TruthyStr(r.username)
  THEN Error(d, 400, "adminUserId and username are required", 0)
  ELSE IF ~TruthyStr(r.password)
  THEN Error(d, 400, "Password is required", 0)
  ELSE IF Throws(r, 1) THEN fail(d, 1)
  ELSE IF AccessDenied(checkUserPermission(d, r.adminUserId, "admin_panel"))
  THEN Error(d, 403, "Access denied", 1)
  ELSE IF Throws(r, 2) THEN fail(d, 2)
  ELSE IF ExistingUser(d, r.username, r.email)
  THEN Error(d, 400, "username or email exists", 2)
  ELSE IF Throws(r, 3) THEN fail(d, 3)
  ELSE IF Throws(r, 4) \/ UserUniqueViolation(d, r.username, r.email)
  THEN fail(d, 4)
  ELSE IF Throws(r, 5) THEN [fail(d1, 5) EXCEPT !.newUsers = 1]
  ELSE IF role = "ADMIN" THEN created(d2, 5)
  ELSE IF Throws(r, 6)
          \/ ~CreateDataValid(PermissionCreateData, UserPermissionColumns)
  THEN [fail(d2, 6) EXCEPT !.newUsers = 1]
  ELSE created(d3, 6)

\* ----------------------------------------------- /api/admin/users: PATCH
\* JS `!updateData.isActive` on the values the model sends.
NotIsActive(isActive) == isActive # "true"

\* Faulty variant of SelfBan: the guard left out.
GuardSkipped(adminUserId, userId, isActive) == FALSE

\* The self-ban guard of case 'updateStatus'.
SelfBan(adminUserId, userId, isActive) ==
  adminUserId = userId /\ NotIsActive(isActive)

\* Faulty variant of InvalidAction: the default case falls out of the switch
\* and the handler replies with the (undefined) result.
InvalidActionIgnored(d) == Result(d, 200, [error |-> ""], 1)

\* The default case of the switch on action.
InvalidAction(d) == Error(d, 400, "Invalid action", 1)

UsersPATCH(d, r) ==
  LET fail(n) == Caught(d, "Failed to update user", n)
      known == r.userId \in DOMAIN d.users
  IN
  IF ~TruthyId(r.adminUserId) \/ ~TruthyId(r.userId) \/ ~TruthyStr(r.action)
  THEN Error(d, 400, "adminUserId, userId, and action are required", 0)
  ELSE IF Throws(r, 1) THEN fail(1)
  ELSE IF AccessDenied(checkUserPermission(d, r.adminUserId, "admin_panel"))
  THEN Error(d, 403, "Access denied", 1)
  ELSE CASE r.action = "updateStatus" ->
              IF SelfBan(r.adminUserId, r.userId, r.isActive)
              THEN Error(d, 400, "Cannot ban your own account", 1)
              ELSE IF Throws(r, 2) \/ ~known THEN fail(2)
              ELSE LET dd == updateUserStatus(d, r.userId, r.isActive)
                   IN Result(dd, 200, dd.users[r.userId], 2)
         [] r.action = "updateAccessCodePermission" ->
              IF Throws(r, 2) \/ ~known THEN fail(2)
              ELSE LET dd == updateUserAccessCodePermission(
                               d, r.userId, r.canShareAccessCode)
                   IN Result(dd, 200, dd.users[r.userId], 2)
         [] r.action = "updatePermissions" ->
              IF Throws(r, 2) \/ ~known THEN fail(2)
              ELSE LET dd == updateUserPermissions(d, r.userId, r.permissions)
                   IN Result(dd, 200, dd.permissions[r.userId], 2)
         [] OTHER -> InvalidAction(d)

\* ---------------------------------------------- /api/admin/users: DELETE
\* The statements of the transaction body, in order.
DeleteSteps ==
  <<"message", "conversation", "tokenUsage", "userPermission",
    "inviteCode", "accessCode", "user">>

\* One statement of the transaction body applied to the store, with the
\* referential actions (onDelete) the schema attaches to the deleted rows.
DeleteStep(d, step, userId) ==
  CASE step = "message" ->
         [d EXCEPT !.messages = {m \in d.messages : m.userId # userId}]
    [] step = "conversation" ->
         LET gone == {c.id : c \in {x \in d.conversations : x.userId = userId}}
         IN [d EXCEPT
               !.conversations = {c \in d.conversations : c.userId # userId},
               !.messages = {m \in d.messages : m.conversationId \notin gone},
               !.tokenUsage =
                 {IF t.conversationId # None /\ t.conversationId[1] \in gone
                  THEN [t EXCEPT !.conversationId = None] ELSE t
                  : t \in d.tokenUsage}]
    [] step = "tokenUsage" ->
         [d EXCEPT !.tokenUsage = {t \in d.tokenUsage : t.userId # userId}]
    [] step = "userPermission" ->
         [d EXCEPT !.permissions = Without(d.permissions, {userId})]
    [] step = "inviteCode" ->
         [d EXCEPT !.inviteCodes =
            Without(d.inviteCodes,
                    {c \in DOMAIN d.inviteCodes :
                       d.inviteCodes[c].createdBy = userId})]
    [] step = "accessCode" ->
         [d EXCEPT !.accessCodes =
            Without(d.accessCodes,
                    {c \in DOMAIN d.accessCodes :
                       d.accessCodes[c].createdBy = userId})]
    [] step = "user" ->
         [d EXCEPT !.users = Without(d.users, {userId}),
                   !.settings = Without(d.settings, {userId})]

RECURSIVE RunSteps(_, _, _)
\* The store after the first n statements of the transaction body.
RunSteps(d, userId, n) ==
  IF n = 0 THEN d
  ELSE DeleteStep(RunSteps(d, userId, n - 1), DeleteSteps[n], userId)

\* Faulty variant of Rollback: the statements already run are kept.
KeepPartial(before, partial) == partial

\* What prisma.$transaction leaves when its callback throws.
Rollback(before, partial) == before

\* prisma.$transaction(async tx => ...): statement number failed throws
\* (0: none does).
Transaction(d, userId, failed) ==
  IF failed = 0
  THEN [db |-> RunSteps(d, userId, Len(DeleteSteps)), committed |-> TRUE]
  ELSE [db |-> Rollback(d, RunSteps(d, userId, failed - 1)),
        committed |-> FALSE]

SelfDelete(adminUserId, userId) == adminUserId = userId

UsersDELETE(d, r) ==
  LET fail(n) == Caught(d, "Failed to delete user", n)
      failed == IF r.failAt > 2 THEN r.failAt - 2 ELSE 0
      tx == Transaction(d, r.userId, failed)
  IN
  IF ~TruthyId(r.adminUserId) \/ ~TruthyId(r.userId)
  THEN Error(d, 400, "adminUserId and userId are required", 0)
  ELSE IF Throws(r, 1) THEN fail(1)
  ELSE IF AccessDenied(checkUserPermission(d, r.adminUserId, "admin_panel"))
  THEN Error(d, 403, "Access denied", 1)
  ELSE IF SelfDelete(r.adminUserId, r.userId)
  THEN Error(d, 400, "Cannot delete your own account", 1)
  ELSE IF Throws(r, 2) THEN fail(2)
  ELSE IF r.userId \notin DOMAIN d.users
  THEN Error(d, 404, "User not found", 2)
  ELSE IF ~tx.committed
  THEN Caught(tx.db, "Failed to delete user", r.failAt)
  ELSE Result(tx.db, 200,
              [success |-> TRUE, message |-> "User deleted successfully"],
              2 + Len(DeleteSteps))

\* ------------------------------------------------------------ @/lib/codes
\* generateInviteCode(): a code string no other row carries.
generateInviteCode(n) == <<"fimai", n>>

\* ------------------------------------------------- /api/admin/codes: GET
CodesGET(d, r) ==
  LET type == IF TruthyStr(r.type) THEN r.type ELSE "invite"
      fail(n) == Caught(d, "Failed to fetch codes", n)
  IN
  IF ~TruthyId(r.adminUserId)
  THEN Error(d, 400, "adminUserId is required", 0)
  ELSE IF Throws(r, 1) THEN fail(1)
  ELSE IF AccessDenied(checkUserPermission(d, r.adminUserId, "admin_panel"))
  THEN Error(d, 403, "Access denied", 1)
  ELSE IF type = "invite"
  THEN IF Throws(r, 2) THEN fail(2)
       ELSE Result(d, 200, [codes |-> d.inviteCodes], 2)
  ELSE IF type = "access"
  THEN IF Throws(r, 2) THEN fail(2)
       ELSE Result(d, 200, [codes |-> d.accessCodes], 2)
  ELSE Error(d, 400, "Invalid type parameter", 1)

\* ------------------------------------------------ /api/admin/codes: POST
\* `maxUses || 1`.
MaxUsesOrDefault(maxUses) == IF TruthyNum(maxUses) THEN maxUses[1] ELSE 1

CodesPOST(d, r, cid) ==
  LET fail(n) == Caught(d, "Failed to create code", n)
      code == generateInviteCode(cid)
      invite == InviteRow(code, r.adminUserId, MaxUsesOrDefault(r.maxUses),
                          r.expiresAt)
      access == AccessRow(code, r.adminUserId, r.expiresAt)
  IN
  IF ~TruthyId(r.adminUserId) \/ ~TruthyStr(r.type)
  THEN Error(d, 400, "adminUserId and type are required", 0)
  ELSE IF Throws(r, 1) THEN fail(1)
  ELSE IF AccessDenied(checkUserPermission(d, r.adminUserId, "admin_panel"))
  THEN Error(d, 403, "Access denied", 1)
  ELSE IF r.type = "invite"
  THEN IF Throws(r, 2) THEN fail(2)
       ELSE [Result([d EXCEPT !.inviteCodes = With(d.inviteCodes, cid, invite)],
                    200, invite, 2)
             EXCEPT !.newCodes = 1]
  ELSE IF r.type = "access"
  THEN IF Throws(r, 2) THEN fail(2)
       ELSE [Result([d EXCEPT !.accessCodes = With(d.accessCodes, cid, access)],
                    200, access, 2)
             EXCEPT !.newCodes = 1]
  ELSE Error(d, 400, "Invalid type parameter", 1)

\* ---------------------------------------------- /api/admin/codes: DELETE
\* prisma.<model>.delete({ where: { id } }) throws when no row has the id.
CodesDELETE(d, r) ==
  LET fail(n) == Caught(d, "Failed to delete code", n)
      done(dd) ==
        Result(dd, 200,
               [success |-> TRUE, message |-> "Code deleted successfully"], 2)
  IN
  IF ~TruthyId(r.adminUserId) \/ ~TruthyId(r.codeId) \/ ~TruthyStr(r.type)
  THEN Error(d, 400, "adminUserId, codeId, and type are required", 0)
  ELSE IF Throws(r, 1) THEN fail(1)
  ELSE IF AccessDenied(checkUserPermission(d, r.adminUserId, "admin_panel"))
  THEN Error(d, 403, "Access denied", 1)
  ELSE IF r.type = "invite"
  THEN IF Throws(r, 2) \/ r.codeId \notin DOMAIN d.inviteCodes THEN fail(2)
       ELSE done([d EXCEPT !.inviteCodes = Without(d.inviteCodes, {r.codeId})])
  ELSE IF r.type = "access"
  THEN IF Throws(r, 2) \/ r.codeId \notin DOMAIN d.accessCodes THEN fail(2)
       ELSE done([d EXCEPT !.accessCodes = Without(d.accessCodes, {r.codeId})])
  ELSE Error(d, 400, "Invalid type parameter", 1)

\* ----------------------------------------------- /api/admin/codes: PATCH
\* Faulty variant of ToggleInvite: the update also clears the use count.
ToggleInviteResets(row) == [row EXCEPT !.isUsed = ~row.isUsed, !.currentUses = 0]

\* prisma.inviteCode.update({ where: { id }, data: { isUsed: !row.isUsed } }).
ToggleInvite(row) == [row EXCEPT !.isUsed = ~row.isUsed]

\* prisma.accessCode.update({ where: { id }, data: { isActive: !row.isActive } }).
ToggleAccess(row) == [row EXCEPT !.isActive = ~row.isActive]

CodesPATCH(d, r) ==
  LET fail(n) == Caught(d, "Failed to update code", n) IN
  IF ~TruthyId(r.adminUserId) \/ ~TruthyId(r.codeId) \/ ~TruthyStr(r.type)
     \/ ~TruthyStr(r.action)
  THEN Error(d, 400, "adminUserId, codeId, type, and action are required", 0)
  ELSE IF Throws(r, 1) THEN fail(1)
  ELSE IF AccessDenied(checkUserPermission(d, r.adminUserId, "admin_panel"))
  THEN Error(d, 403, "Access denied", 1)
  ELSE IF r.type = "invite"
  THEN IF r.action = "toggle"
       THEN IF Throws(r, 2) THEN fail(2)
            ELSE IF r.codeId \notin DOMAIN d.inviteCodes
            THEN Error(d, 404, "Invite code not found", 2)
            ELSE IF Throws(r, 3) THEN fail(3)
            ELSE LET row == ToggleInvite(d.inviteCodes[r.codeId])
                 IN Result([d EXCEPT !.inviteCodes[r.codeId] = row], 200, row, 3)
       ELSE Error(d, 400, "Invalid action for invite code", 1)
  ELSE IF r.type = "access"
  THEN IF r.action = "toggle"
       THEN IF Throws(r, 2) THEN fail(2)
            ELSE IF r.codeId \notin DOMAIN d.accessCodes
            THEN Error(d, 404, "Access code not found", 2)
            ELSE IF Throws(r, 3) THEN fail(3)
            ELSE LET row == ToggleAccess(d.accessCodes[r.codeId])
                 IN Result([d EXCEPT !.accessCodes[r.codeId] = row], 200, row, 3)
       ELSE Error(d, 400, "Invalid action for access code", 1)
  ELSE Error(d, 400, "Invalid type parameter", 1)

\* ------------------------------------------- /api/admin/database-reset
ResetCommand == "npm run db:reset"
SeedCommand == "npm run db:seed"

\* What one execAsync call can do: run to exit code 0 ("ok"), exit non-zero
\* ("exit"), be killed at the timeout ("timeout") or not start ("spawn").  A
\* command changes the store when it runs to exit code 0.
CmdResults ==
  [outcome : {"ok"}, stdout : {"", "out\n"}, stderr : {"", "warn"},
   applied : {TRUE}]
  \cup [outcome : {"exit", "timeout"}, stdout : {"", "out\n"},
        stderr : {"", "warn"}, applied : {FALSE}]
  \cup [outcome : {"spawn"}, stdout : {""}, stderr : {""}, applied : {FALSE}]

\* The store after a command: db:reset drops every table, db:seed loads the
\* reference data.
Effect(d, cmd, res) ==
  IF ~res.applied THEN d
  ELSE IF cmd = ResetCommand THEN EmptyDb
  ELSE [d EXCEPT !.seeded = TRUE]

Ran(cmd, res) == [cmd |-> cmd, result |-> res]

\* Faulty variant of AwaitResolves: output on stderr counts as a failure.
AwaitRejectsOnStderr(res) == res.outcome = "ok" /\ res.stderr = ""

\* execError.message: child_process names the command of a process that
\* exited non-zero or was killed; a spawn error names only the shell.
ExecErrorMessage(cmd, res) ==
  IF res.outcome = "spawn" THEN <<"spawn /bin/sh EAGAIN">>
  ELSE <<"Command failed", cmd, res.stderr>>

\* The reply of the inner catch block.
ExecFailure(d, cmd, res) ==
  Result(d, 500,
         [error |-> "Failed to reset database",
          details |-> ExecErrorMessage(cmd, res),
          stdout |-> res.stdout, stderr |-> res.stderr], 1)

\* Faulty variant of AwaitResolves: a failed command does not reject.
AwaitAlwaysResolves(res) == TRUE

\* `await execAsync(...)` resolves, so the next statement runs, only when the
\* command exited with code 0.
AwaitResolves(res) == res.outcome = "ok"

\* The inner try block: reset, then seed, then the success reply.
RunReset(d, env) ==
  LET d1 == Effect(d, ResetCommand, env.reset)
      d2 == Effect(d1, SeedCommand, env.seed)
      log1 == <<Ran(ResetCommand, env.reset)>>
      log2 == Append(log1, Ran(SeedCommand, env.seed))
  IN
  IF ~AwaitResolves(env.reset)
  THEN [ExecFailure(d1, ResetCommand, env.reset) EXCEPT !.log = log1]
  ELSE IF ~AwaitResolves(env.seed)
  THEN [ExecFailure(d2, SeedCommand, env.seed) EXCEPT !.log = log2]
  ELSE [Result(d2, 200,
               [success |-> TRUE,
                message |-> "Database has been successfully reset and reseeded",
                details |-> [resetOutput |-> Trim(env.reset.stdout),
                             seedOutput |-> Trim(env.seed.stdout)]], 1)
        EXCEPT !.log = log2]

\* Faulty variant of ConfirmTextOk: the text is trimmed before comparing.
ConfirmIgnoringSpace(confirmText) == Trim(confirmText) = "RESET DATABASE"

\* `confirmText !== 'RESET DATABASE'`.
ConfirmTextOk(confirmText) == confirmText = "RESET DATABASE"

ResetPOST(d, r, env) ==
  IF ~TruthyId(r.adminUserId)
  THEN Error(d, 400, "adminUserId is required", 0)
  ELSE IF Throws(r, 1) THEN Caught(d, "Failed to reset database", 1)
  ELSE IF AccessDenied(checkUserPermission(d, r.adminUserId, "admin_panel"))
  THEN Error(d, 403, "Access denied", 1)
  ELSE IF ~ConfirmTextOk(r.confirmText)
  THEN Error(d, 400, "Invalid confirmation text", 1)
  ELSE RunReset(d, env)

ResetGET(d, r) ==
  IF ~TruthyId(r.adminUserId)
  THEN Error(d, 400, "adminUserId is required", 0)
  ELSE IF Throws(r, 1)
  THEN Caught(d, "Failed to get database reset information", 1)
  ELSE IF AccessDenied(checkUserPermission(d, r.adminUserId, "admin_panel"))
  THEN Error(d, 403, "Access denied", 1)
  ELSE Result(d, 200,
              [available |-> TRUE, confirmationRequired |-> "RESET DATABASE"],
              1)

\* ------------------------------------------------------ request contents
AdminIds == 0 .. MaxUsers
TargetIds == 0 .. MaxUsers
CodeIds == 0 .. MaxCodes
Usernames == {"", "A", "c", "C"}
Emails == {"", "e1"}
Passwords == {"", "pw"}
RoleArgs == {"", "ADMIN"}
UserActions ==
  {"", "updateStatus", "updateAccessCodePermission", "updatePermissions",
   "promote"}
IsActiveArgs == {"undefined", "true", "false"}
TagSets == {{}, {"admin_panel"}}
Types == {"", "invite", "access", "other"}
CodeActions == {"", "toggle", "other"}
MaxUsesArgs == {None, Some(0), Some(2), Some(-1)}
ExpiresArgs == {None, Some(9)}
ConfirmTexts == {"", "RESET DATABASE", "reset database", " RESET DATABASE "}

\* --------------------------------------------------------------- actions
Init ==
  /\ db = InitialDb
  /\ nextUserId = 3
  /\ nextCodeId = 4
  /\ execLog = <<>>
  /\ req = NoReq
  /\ resp = NoResp
  /\ pc = "idle"
  /\ served = 0
  /\ clients = <<>>
  /\ title = NoTitle
  /\ quota = NoQuota
  /\ picker = NoPicker

\* A request arrives while none is in progress.
Accepting == pc = "idle" /\ served < MaxRequests

\* The handler has run on request r with result out: its writes, its reply.
\* A fault is injected only at a downstream call the handler makes, and the
\* store issues ids up to the bounds.
Reply(r, out) ==
  /\ r.failAt <= out.calls
  /\ nextUserId + out.newUsers <= MaxUsers + 1
  /\ nextCodeId + out.newCodes <= MaxCodes + 1
  /\ db' = out.db
  /\ nextUserId' = nextUserId + out.newUsers
  /\ nextCodeId' = nextCodeId + out.newCodes
  /\ execLog' = out.log
  /\ req' = r
  /\ resp' = [status |-> out.status, body |-> out.body]
  /\ pc' = "replied"
  /\ served' = served + 1
  /\ UNCHANGED <<clients, title, quota, picker>>

HandleUsersGET ==
  /\ Accepting
  /\ \E a \in AdminIds, f \in 0 .. 2 :
       LET r == [NoReq EXCEPT !.op = "GET users", !.adminUserId = a,
                              !.failAt = f]
       IN Reply(r, UsersGET(db, r))

HandleUsersPOST ==
  /\ Accepting
  /\ \E a \in AdminIds, f \in 0 .. 6, u \in Usernames, e \in Emails,
        p \in Passwords, ro \in RoleArgs :
       LET r == [NoReq EXCEPT !.op = "POST users", !.adminUserId = a,
                              !.failAt = f, !.username = u, !.email = e,
                              !.password = p, !.role = ro]
       IN Reply(r, UsersPOST(db, r, nextUserId))

HandleUsersPATCH ==
  /\ Accepting
  /\ \E a \in AdminIds, f \in 0 .. 2, u \in TargetIds, act \in UserActions,
        ia \in IsActiveArgs, cs \in BOOLEAN, tags \in TagSets :
       /\ act = "updateStatus" \/ ia = "undefined"
       /\ act = "updateAccessCodePermission" \/ cs = TRUE
       /\ act = "updatePermissions" \/ tags = {}
       /\ LET r == [NoReq EXCEPT !.op = "PATCH users", !.adminUserId = a,
                                 !.failAt = f, !.userId = u, !.action = act,
                                 !.isActive = ia, !.canShareAccessCode = cs,
                                 !.permissions = tags]
          IN Reply(r, UsersPATCH(db, r))

HandleUsersDELETE ==
  /\ Accepting
  /\ \E a \in AdminIds, f \in 0 .. (2 + Len(DeleteSteps)), u \in TargetIds :
       LET r == [NoReq EXCEPT !.op = "DELETE users", !.adminUserId = a,
                              !.failAt = f, !.userId = u]
       IN Reply(r, UsersDELETE(db, r))

HandleCodesGET ==
  /\ Accepting
  /\ \E a \in AdminIds, f \in 0 .. 2, t \in Types :
       LET r == [NoReq EXCEPT !.op = "GET codes", !.adminUserId = a,
                              !.failAt = f, !.type = t]
       IN Reply(r, CodesGET(db, r))

HandleCodesPOST ==
  /\ Accepting
  /\ \E a \in AdminIds, f \in 0 .. 2, t \in Types, m \in MaxUsesArgs,
        x \in ExpiresArgs :
       /\ t = "invite" \/ m = None
       /\ LET r == [NoReq EXCEPT !.op = "POST codes", !.adminUserId = a,
                                 !.failAt = f, !.type = t, !.maxUses = m,
                                 !.expiresAt = x]
          IN Reply(r, CodesPOST(db, r, nextCodeId))

HandleCodesDELETE ==
  /\ Accepting
  /\ \E a \in AdminIds, f \in 0 .. 2, c \in CodeIds, t \in Types :
       LET r == [NoReq EXCEPT !.op = "DELETE codes", !.adminUserId = a,
                              !.failAt = f, !.codeId = c, !.type = t]
       IN Reply(r, CodesDELETE(db, r))

HandleCodesPATCH ==
  /\ Accepting
  /\ \E a \in AdminIds, f \in 0 .. 3, c \in CodeIds, t \in Types,
        act \in CodeActions :
       LET r == [NoReq EXCEPT !.op = "PATCH codes", !.adminUserId = a,
                              !.failAt = f, !.codeId = c, !.type = t,
                              !.action = act]
       IN Reply(r, CodesPATCH(db, r))

HandleResetGET ==
  /\ Accepting
  /\ \E a \in AdminIds, f \in 0 .. 1 :
       LET r == [NoReq EXCEPT !.op = "GET database-reset", !.adminUserId = a,
                              !.failAt = f]
       IN Reply(r, ResetGET(db, r))

\* What the seed command can do in a request: every result when the handler
\* reaches it, and nothing to choose when it does not.
SeedResults(out, rr) == IF Len(out.log) = 2 THEN CmdResults ELSE {rr}

HandleResetPOST ==
  /\ Accepting
  /\ \E a \in AdminIds, f \in 0 .. 1, t \in ConfirmTexts :
       LET r == [NoReq EXCEPT !.op = "POST database-reset",
                              !.adminUserId = a, !.failAt = f,
                              !.confirmText = t]
       IN \E rr \in CmdResults :
            \E sr \in SeedResults(ResetPOST(db, r, [reset |-> rr, seed |-> rr]), rr) :
              Reply(r, ResetPOST(db, r, [reset |-> rr, seed |-> sr]))

\* The reply has been sent; the next request can be taken.
Return ==
  /\ pc = "replied"
  /\ pc' = "idle"
  /\ req' = NoReq
  /\ resp' = NoResp
  /\ execLog' = <<>>
  /\ UNCHANGED <<db, nextUserId, nextCodeId, served, clients, title, quota,
                 picker>>

Next ==
  \/ HandleUsersGET
  \/ HandleUsersPOST
  \/ HandleUsersPATCH
  \/ HandleUsersDELETE
  \/ HandleCodesGET
  \/ HandleCodesPOST
  \/ HandleCodesDELETE
  \/ HandleCodesPATCH
  \/ HandleResetGET
  \/ HandleResetPOST
  \/ Return

Spec == Init /\ [][Next]_vars

\* ============================== MaterialChatLayout: the chat-title editor
\* A title is a sequence of characters.  The text field's maxLength is the
\* browser's limit on typing; the value the editor starts from is the
\* chatTitle prop, which is any string, so editableTitle is any string.
MaxTitleLen == 10  \* longest title the field holds
TitleLimit == 8    \* slice(0, 8)

Chars == {" ", "a", "b"}
IsSpace(c) == c = " "

\* The chatTitle prop the parent passes.
PropTitles == {<<" ", "a", "b">>}

RECURSIVE TrimStart(_)
TrimStart(s) ==
  IF s # <<>> /\ IsSpace(Head(s)) THEN TrimStart(Tail(s)) ELSE s

RECURSIVE TrimEnd(_)
TrimEnd(s) ==
  IF s # <<>> /\ IsSpace(s[Len(s)])
  THEN TrimEnd(SubSeq(s, 1, Len(s) - 1)) ELSE s

\* String.prototype.trim on a sequence of characters.
TrimChars(s) == TrimEnd(TrimStart(s))

\* Faulty variant of Slice: the last characters instead of the first.
SliceFromEnd(s, start, end) ==
  SubSeq(s, IF Len(s) > end THEN Len(s) - end + 1 ELSE 1, Len(s))

\* String.prototype.slice(start, end) for 0 <= start <= end.
Slice(s, start, end) ==
  SubSeq(s, start + 1, IF end < Len(s) THEN end ELSE Len(s))

\* handleTitleEdit: the editor opens on the current title.
handleTitleEdit(t) ==
  [t EXCEPT !.editableTitle = t.chatTitle, !.isEditingTitle = TRUE,
            !.passed = None]

\* handleTitleSave: the trimmed, cut title goes to onChatTitleChange when
\* there is a callback and the title is not empty; the editor closes.
handleTitleSave(t) ==
  LET trimmedTitle == Slice(TrimChars(t.editableTitle), 0, TitleLimit)
  IN [t EXCEPT !.passed = IF t.hasCallback /\ trimmedTitle # <<>>
                          THEN Some(trimmedTitle) ELSE None,
               !.isEditingTitle = FALSE]

TitleInit ==
  /\ db = InitialDb
  /\ nextUserId = 3
  /\ nextCodeId = 4
  /\ execLog = <<>>
  /\ req = NoReq
  /\ resp = NoResp
  /\ pc = "idle"
  /\ served = 0
  /\ clients = <<>>
  /\ quota = NoQuota
  /\ picker = NoPicker
  /\ \E ct \in PropTitles, cb \in BOOLEAN :
       title = [chatTitle |-> ct, hasCallback |-> cb, editableTitle |-> ct,
                isEditingTitle |-> FALSE, passed |-> None]

TitleUnchanged ==
  UNCHANGED <<db, nextUserId, nextCodeId, execLog, req, resp, pc, served,
              clients, quota, picker>>

\* Faulty variant of onTitleClick: the handler wired in every state.
ClickAlwaysEdits(t) == handleTitleEdit(t)

\* `onClick={!isEditingTitle ? handleTitleEdit : undefined}`: the box has a
\* click handler only while the editor is closed.
onTitleClick(t) == IF ~t.isEditingTitle THEN handleTitleEdit(t) ELSE t

\* A click on the title box, which also holds the text field while the
\* editor is open.
ClickTitle ==
  /\ title' = onTitleClick(title)
  /\ TitleUnchanged

\* onChange of the text field: a character typed at the end.
TypeChar ==
  /\ title.isEditingTitle
  /\ Len(title.editableTitle) < MaxTitleLen
  /\ \E c \in Chars :
       title' = [title EXCEPT !.editableTitle = Append(@, c)]
  /\ TitleUnchanged

\* onChange of the text field: the last character deleted.
DeleteChar ==
  /\ title.isEditingTitle
  /\ title.editableTitle # <<>>
  /\ title' = [title EXCEPT !.editableTitle = SubSeq(@, 1, Len(@) - 1)]
  /\ TitleUnchanged

\* onBlur of the text field.
BlurTitle ==
  /\ title.isEditingTitle
  /\ title' = handleTitleSave(title)
  /\ TitleUnchanged

\* handleTitleKeyPress: Enter saves, any other key does nothing here.
KeyPressTitle ==
  /\ title.isEditingTitle
  /\ \E key \in {"Enter", "Escape"} :
       title' = IF key = "Enter" THEN handleTitleSave(title) ELSE title
  /\ TitleUnchanged

TitleNext ==
  \/ ClickTitle
  \/ TypeChar
  \/ DeleteChar
  \/ BlurTitle
  \/ KeyPressTitle

TitleSpec == TitleInit /\ [][TitleNext]_vars

\* ================================ quota accounting on a UserPermission row
\* The schema declares the counters (limitPeriod, tokenUsed, lastResetAt);
\* the routine that records usage is outside the reviewed sources and is
\* written here from its specification.  Time is counted in days.
MaxRecords == 2  \* usage records in one behaviour

LimitPeriods == {"daily", "monthly", "quarterly", "yearly"}

\* The duration a limit period implies, in days.
PeriodDays(limitPeriod) ==
  CASE limitPeriod = "daily" -> 1
    [] limitPeriod = "monthly" -> 30
    [] limitPeriod = "quarterly" -> 90
    [] limitPeriod = "yearly" -> 365

\* Days between two usage records: around each period's end.
Gaps == {0, 1, 2, 30, 31, 90, 91, 365, 366}

\* Tokens one model invocation uses.
TokenCounts == {1, 5}

\* Faulty variant of PeriodExceeded: the reset comes when the period is
\* reached, not when it is exceeded.
PeriodReached(elapsed, limitPeriod) == elapsed >= PeriodDays(limitPeriod)

\* The elapsed time exceeds the duration the period implies.
PeriodExceeded(elapsed, limitPeriod) == elapsed > PeriodDays(limitPeriod)

\* Usage of `tokens` recorded at time now: the counter zeroes and lastResetAt
\* advances to now when the period has been exceeded, then the usage is
\* applied.
recordUsage(q, now, tokens) ==
  LET due == PeriodExceeded(now - q.lastResetAt, q.limitPeriod)
      start == IF due THEN [q EXCEPT !.tokenUsed = 0, !.lastResetAt = now]
               ELSE q
  IN [start EXCEPT !.tokenUsed = @ + tokens, !.now = now,
                   !.recorded = @ + 1]

QuotaInit ==
  /\ db = InitialDb
  /\ nextUserId = 3
  /\ nextCodeId = 4
  /\ execLog = <<>>
  /\ req = NoReq
  /\ resp = NoResp
  /\ pc = "idle"
  /\ served = 0
  /\ clients = <<>>
  /\ title = NoTitle
  /\ picker = NoPicker
  /\ \E p \in LimitPeriods, used \in {0, 7} :
       quota = [NoQuota EXCEPT !.limitPeriod = p, !.tokenUsed = used]

\* A model invocation's usage is recorded some days after the last one.
RecordUsage ==
  /\ quota.recorded < MaxRecords
  /\ \E gap \in Gaps, tokens \in TokenCounts :
       quota' = recordUsage(quota, quota.now + gap, tokens)
  /\ UNCHANGED <<db, nextUserId, nextCodeId, execLog, req, resp, pc, served,
                 clients, title, picker>>

QuotaNext == RecordUsage

QuotaSpec == QuotaInit /\ [][QuotaNext]_vars

\* ==================================== requests served at the same time
\* A handler is an async function: between two awaits it runs alone, and at
\* each await another request's handler may run.  Each client below is one
\* request in progress; one action is the code between two awaits.
MaxClients == 2  \* requests in progress at the same time

Clients == 1 .. MaxClients

\* The parts of the state requests in progress do not use.
ApiIdle ==
  /\ nextCodeId = 4
  /\ execLog = <<>>
  /\ req = NoReq
  /\ resp = NoResp
  /\ pc = "idle"
  /\ served = 0
  /\ title = NoTitle
  /\ quota = NoQuota
  /\ picker = NoPicker

ApiUnchanged ==
  UNCHANGED <<nextCodeId, execLog, req, resp, pc, served, title, quota,
              picker>>

\* The handler of client cl has replied.
Done(cl, status) == [cl EXCEPT !.at = "done", !.status = status]

AllDone == \A c \in DOMAIN clients : clients[c].at = "done"

\* ------------------------------------ PATCH /api/admin/codes, action toggle
\* The codes the toggle requests name.
ToggleTargets ==
  {[type |-> "invite", codeId |-> 1], [type |-> "invite", codeId |-> 2],
   [type |-> "access", codeId |-> 3]}

ToggleInit ==
  /\ db = InitialDb
  /\ nextUserId = 3
  /\ ApiIdle
  /\ clients \in
       [Clients ->
          {[at |-> "start", adminUserId |-> 1, type |-> t.type,
            codeId |-> t.codeId, row |-> None, status |-> 0]
           : t \in ToggleTargets}]

\* await checkUserPermission, and the gate.
ToggleCheck ==
  \E c \in Clients :
    LET cl == clients[c] IN
    /\ cl.at = "start"
    /\ clients' =
         [clients EXCEPT ![c] =
            IF AccessDenied(checkUserPermission(db, cl.adminUserId,
                                                "admin_panel"))
            THEN Done(cl, 403) ELSE [cl EXCEPT !.at = "checked"]]
    /\ UNCHANGED <<db, nextUserId>>
    /\ ApiUnchanged

\* await findUnique: the row as it is now, or 404.
ToggleFind ==
  \E c \in Clients :
    LET cl == clients[c]
        table == IF cl.type = "invite" THEN db.inviteCodes
                 ELSE db.accessCodes
    IN
    /\ cl.at = "checked"
    /\ clients' =
         [clients EXCEPT ![c] =
            IF cl.codeId \notin DOMAIN table THEN Done(cl, 404)
            ELSE [cl EXCEPT !.at = "found", !.row = Some(table[cl.codeId])]]
    /\ UNCHANGED <<db, nextUserId>>
    /\ ApiUnchanged

\* await update: the flag is set to the negation of the flag of the row the
\* handler read.
ToggleUpdate ==
  \E c \in Clients :
    LET cl == clients[c] IN
    /\ cl.at = "found"
    /\ db' =
         IF cl.type = "invite"
         THEN [db EXCEPT !.inviteCodes[cl.codeId].isUsed =
                           ToggleInvite(cl.row[1]).isUsed]
         ELSE [db EXCEPT !.accessCodes[cl.codeId].isActive =
                           ToggleAccess(cl.row[1]).isActive]
    /\ clients' = [clients EXCEPT ![c] = Done(cl, 200)]
    /\ UNCHANGED nextUserId
    /\ ApiUnchanged

ToggleNext ==
  \/ ToggleCheck
  \/ ToggleFind
  \/ ToggleUpdate

ToggleSpec == ToggleInit /\ [][ToggleNext]_vars

\* ------------------------------------------------- POST /api/admin/users
\* The usernames the create requests ask for.
CreateNames == {"c", "C"}

CreateInit ==
  /\ db = InitialDb
  /\ nextUserId = 3
  /\ ApiIdle
  /\ clients \in
       [Clients ->
          {[at |-> "start", adminUserId |-> 1, username |-> u, email |-> "",
            password |-> "pw", role |-> ro, uid |-> 0, status |-> 0]
           : u \in CreateNames, ro \in RoleArgs}]

\* await checkUserPermission, and the gate.
CreateCheck ==
  \E c \in Clients :
    LET cl == clients[c] IN
    /\ cl.at = "start"
    /\ clients' =
         [clients EXCEPT ![c] =
            IF AccessDenied(checkUserPermission(db, cl.adminUserId,
                                                "admin_panel"))
            THEN Done(cl, 403) ELSE [cl EXCEPT !.at = "checked"]]
    /\ UNCHANGED <<db, nextUserId>>
    /\ ApiUnchanged

\* await findFirst: 400 when a user has the username (any letter case) or
\* the email now.
CreateLookup ==
  \E c \in Clients :
    LET cl == clients[c] IN
    /\ cl.at = "checked"
    /\ clients' =
         [clients EXCEPT ![c] =
            IF ExistingUser(db, cl.username, cl.email) THEN Done(cl, 400)
            ELSE [cl EXCEPT !.at = "looked"]]
    /\ UNCHANGED <<db, nextUserId>>
    /\ ApiUnchanged

\* await bcrypt.hash.
CreateHash ==
  \E c \in Clients :
    /\ clients[c].at = "looked"
    /\ clients' = [clients EXCEPT ![c].at = "hashed"]
    /\ UNCHANGED <<db, nextUserId>>
    /\ ApiUnchanged

\* await user.create: the store rejects only an exact match of a @unique
\* column.
CreateInsert ==
  \E c \in Clients :
    LET cl == clients[c]
        role == IF cl.role = "" THEN "USER" ELSE cl.role
        clash == UserUniqueViolation(db, cl.username, cl.email)
    IN
    /\ cl.at = "hashed"
    /\ clients' =
         [clients EXCEPT ![c] =
            IF clash THEN Done(cl, 500)
            ELSE [cl EXCEPT !.at = "inserted", !.uid = nextUserId]]
    /\ db' =
         IF clash THEN db
         ELSE [db EXCEPT !.users =
                 With(db.users, nextUserId,
                      UserRow(cl.username, cl.email, Hash(cl.password), role))]
    /\ nextUserId' = IF clash THEN nextUserId ELSE nextUserId + 1
    /\ ApiUnchanged

\* await userSettings.create; a request for role ADMIN replies 201 next.
CreateSettings ==
  \E c \in Clients :
    LET cl == clients[c] IN
    /\ cl.at = "inserted"
    /\ db' = [db EXCEPT !.settings = With(db.settings, cl.uid, DefaultSettings)]
    /\ clients' =
         [clients EXCEPT ![c] =
            IF cl.role = "ADMIN" THEN Done(cl, 201)
            ELSE [cl EXCEPT !.at = "settled"]]
    /\ UNCHANGED nextUserId
    /\ ApiUnchanged

\* await userPermission.create, for a role other than ADMIN.
CreatePermission ==
  \E c \in Clients :
    LET cl == clients[c]
        valid == CreateDataValid(PermissionCreateData, UserPermissionColumns)
    IN
    /\ cl.at = "settled"
    /\ db' =
         IF valid
         THEN [db EXCEPT !.permissions =
                 With(db.permissions, cl.uid, PermissionRow({}))]
         ELSE db
    /\ clients' =
         [clients EXCEPT ![c] = Done(cl, IF valid THEN 201 ELSE 500)]
    /\ UNCHANGED nextUserId
    /\ ApiUnchanged

CreateNext ==
  \/ CreateCheck
  \/ CreateLookup
  \/ CreateHash
  \/ CreateInsert
  \/ CreateSettings
  \/ CreatePermission

CreateSpec == CreateInit /\ [][CreateNext]_vars

\* ------------------- DELETE /api/admin/users, PATCH action updateStatus
\* A store with two active administrators.
TwoAdminDb == [InitialDb EXCEPT !.users[2].role = "ADMIN"]

LockoutInit ==
  /\ db = TwoAdminDb
  /\ nextUserId = 3
  /\ ApiIdle
  /\ clients \in
       [Clients ->
          {[at |-> "start", op |-> o, adminUserId |-> a, userId |-> u,
            isActive |-> IF o = "DELETE users" THEN "undefined" ELSE "false",
            status |-> 0]
           : o \in {"DELETE users", "PATCH users"},
             a \in DOMAIN TwoAdminDb.users, u \in DOMAIN TwoAdminDb.users}]

\* await checkUserPermission, the gate, and the self guard that follows it
\* without an await in between.
LockoutCheck ==
  \E c \in Clients :
    LET cl == clients[c]
        self == IF cl.op = "DELETE users"
                THEN SelfDelete(cl.adminUserId, cl.userId)
                ELSE SelfBan(cl.adminUserId, cl.userId, cl.isActive)
    IN
    /\ cl.at = "start"
    /\ clients' =
         [clients EXCEPT ![c] =
            IF AccessDenied(checkUserPermission(db, cl.adminUserId,
                                                "admin_panel"))
            THEN Done(cl, 403)
            ELSE IF self THEN Done(cl, 400)
            ELSE [cl EXCEPT !.at = "checked"]]
    /\ UNCHANGED <<db, nextUserId>>
    /\ ApiUnchanged

\* DELETE: await findUnique, 404 when the user is not there now.
LockoutFind ==
  \E c \in Clients :
    LET cl == clients[c] IN
    /\ cl.at = "checked" /\ cl.op = "DELETE users"
    /\ clients' =
         [clients EXCEPT ![c] =
            IF cl.userId \notin DOMAIN db.users THEN Done(cl, 404)
            ELSE [cl EXCEPT !.at = "found"]]
    /\ UNCHANGED <<db, nextUserId>>
    /\ ApiUnchanged

\* DELETE: await prisma.$transaction; its last statement throws when the
\* user row has gone in the meantime.
LockoutDelete ==
  \E c \in Clients :
    LET cl == clients[c]
        failed == IF cl.userId \in DOMAIN db.users THEN 0
                  ELSE Len(DeleteSteps)
        tx == Transaction(db, cl.userId, failed)
    IN
    /\ cl.at = "found"
    /\ db' = tx.db
    /\ clients' =
         [clients EXCEPT ![c] = Done(cl, IF tx.committed THEN 200 ELSE 500)]
    /\ UNCHANGED nextUserId
    /\ ApiUnchanged

\* PATCH updateStatus: await updateUserStatus, which throws when the user
\* row is not there.
LockoutUpdateStatus ==
  \E c \in Clients :
    LET cl == clients[c]
        known == cl.userId \in DOMAIN db.users
    IN
    /\ cl.at = "checked" /\ cl.op = "PATCH users"
    /\ db' = IF known THEN updateUserStatus(db, cl.userId, cl.isActive) ELSE db
    /\ clients' = [clients EXCEPT ![c] = Done(cl, IF known THEN 200 ELSE 500)]
    /\ UNCHANGED nextUserId
    /\ ApiUnchanged

LockoutNext ==
  \/ LockoutCheck
  \/ LockoutFind
  \/ LockoutDelete
  \/ LockoutUpdateStatus

LockoutSpec == LockoutInit /\ [][LockoutNext]_vars

\* ================================== MaterialChatLayout: the model picker
MaxModels == 3   \* models in the `models` prop

\* The name of the group of models that carry none: the string literal of
\* the source, in Chinese characters, which reads "other".
DefaultGroup == "other"

\* `group?: string` of a model of the props: absent, empty, or a name.
GroupArgs ==
  {None, Some(""), Some("A"), Some(DefaultGroup), Some("constructor")}

\* The `models` prop: a list of models, the id of each its position.
ModelLists ==
  UNION {{[i \in 1 .. n |->
             [id |-> i, name |-> <<"model", i>>, provider |-> None,
              group |-> g[i]]] : g \in [1 .. n -> GroupArgs]}
         : n \in 0 .. MaxModels}

\* `model.group || <default group>`.
GroupNameOf(model) ==
  IF model.group # None /\ TruthyStr(model.group[1])
  THEN model.group[1] ELSE DefaultGroup

\* What getGroupedModels keeps of a model.
GroupEntry(model) ==
  [id |-> model.id, name |-> model.name, provider |-> model.provider]

\* `modelsByGroup` starts as the object literal {}: besides its own keys, a
\* lookup finds the members every object inherits from Object.prototype.
ObjectPrototypeNames ==
  {"constructor", "hasOwnProperty", "isPrototypeOf", "propertyIsEnumerable",
   "toLocaleString", "toString", "valueOf", "__proto__"}

\* models.forEach(...) from model i on: acc.own holds the own keys of
\* modelsByGroup.  For a name that is no own key, `!modelsByGroup[groupName]`
\* is true unless the name is inherited; an inherited member is truthy and
\* has no push, so the call throws a TypeError.
RECURSIVE forEachModel(_, _, _)
forEachModel(models, i, acc) ==
  IF i > Len(models) \/ acc.threw THEN acc
  ELSE LET groupName == GroupNameOf(models[i])
           entry == GroupEntry(models[i])
       IN IF groupName \in DOMAIN acc.own
          THEN forEachModel(models, i + 1,
                 [acc EXCEPT !.own = With(acc.own, groupName,
                                          Append(acc.own[groupName], entry))])
          ELSE IF groupName \in ObjectPrototypeNames
          THEN [acc EXCEPT !.threw = TRUE]
          ELSE forEachModel(models, i + 1,
                 [acc EXCEPT !.own = With(acc.own, groupName, <<entry>>)])

modelsByGroup(models) == forEachModel(models, 1, [own |-> <<>>, threw |-> FALSE])

\* sortGroupsByUserOrder(modelsByGroup, modelGroups): the orders it may
\* return, every arrangement of the keys it is given.
sortGroupsByUserOrder(own) ==
  {p \in [1 .. Cardinality(DOMAIN own) -> DOMAIN own] :
     \A g \in DOMAIN own : \E i \in DOMAIN p : p[i] = g}

\* getGroupedModels: the results it may give for the `models` prop.
getGroupedModels(models) ==
  LET byGroup == modelsByGroup(models)
  IN IF byGroup.threw
     THEN {[threw |-> TRUE, groupedModels |-> <<>>]}
     ELSE {[threw |-> FALSE,
            groupedModels |->
              [i \in DOMAIN sortedGroups |->
                 [groupName |-> sortedGroups[i],
                  models |-> byGroup.own[sortedGroups[i]]]]]
           : sortedGroups \in sortGroupsByUserOrder(byGroup.own)}

PickerInit ==
  /\ db = InitialDb
  /\ nextUserId = 3
  /\ nextCodeId = 4
  /\ execLog = <<>>
  /\ req = NoReq
  /\ resp = NoResp
  /\ pc = "idle"
  /\ served = 0
  /\ clients = <<>>
  /\ title = NoTitle
  /\ quota = NoQuota
  /\ \E models \in ModelLists : picker = [NoPicker EXCEPT !.models = models]

\* The component renders: `const groupedModels = getGroupedModels()`.
RenderPicker ==
  /\ ~picker.rendered
  /\ \E out \in getGroupedModels(picker.models) :
       picker' = [picker EXCEPT !.rendered = TRUE, !.threw = out.threw,
                                !.groupedModels = out.groupedModels]
  /\ UNCHANGED <<db, nextUserId, nextCodeId, execLog, req, resp, pc, served,
                 clients, title, quota>>

PickerNext == RenderPicker

PickerSpec == PickerInit /\ [][PickerNext]_vars

\* ================================================================ claims
\* A handler has just run: the unprimed store is the one it found, the
\* primed request, reply and store are the ones it leaves.
Handled == pc = "idle" /\ pc' = "replied"

\* The reply to the request is out.
Replied == pc = "replied"

\* The store and the id counters are as the request found them and no
\* command ran.
NothingDone ==
  /\ db' = db
  /\ nextUserId' = nextUserId
  /\ nextCodeId' = nextCodeId
  /\ execLog' = <<>>

\* The request carries every field its handler requires before it consults
\* the permission check.
HasRequiredFields(r) ==
  /\ TruthyId(r.adminUserId)
  /\ r.op = "POST users" => TruthyStr(r.username) /\ TruthyStr(r.password)
  /\ r.op = "PATCH users" => TruthyId(r.userId) /\ TruthyStr(r.action)
  /\ r.op = "DELETE users" => TruthyId(r.userId)
  /\ r.op = "POST codes" => TruthyStr(r.type)
  /\ r.op = "DELETE codes" => TruthyId(r.codeId) /\ TruthyStr(r.type)
  /\ r.op = "PATCH codes" =>
       TruthyId(r.codeId) /\ TruthyStr(r.type) /\ TruthyStr(r.action)

\* The caller of r holds admin_panel in store d.
Permitted(d, r) == checkUserPermission(d, r.adminUserId, "admin_panel")

\* The permission check of the handler ran and returned true.
CheckPassed(d, r) == HasRequiredFields(r) /\ r.failAt # 1 /\ Permitted(d, r)

\* C1 (as stated): every request to an admin endpoint by an identified
\* caller who does not hold admin_panel is answered 403.
C1_EveryDeniedCallerGets403 ==
  [][Handled /\ TruthyId(req'.adminUserId) /\ req'.failAt = 0
       /\ ~Permitted(db, req')
     => resp'.status = 403]_vars

\* C1 (amended): every request that carries all the fields its endpoint
\* requires and whose caller does not hold admin_panel is answered 403; a
\* request that omits a required field is answered 400 before the permission
\* check is made.
C1_DeniedCallerGets403 ==
  [][Handled /\ req'.failAt = 0 /\ ~Permitted(db, req')
     => /\ HasRequiredFields(req') => resp'.status = 403
        /\ ~HasRequiredFields(req') => resp'.status = 400]_vars

C1_Witness ==
  /\ Replied
  /\ req.op = "DELETE users" /\ req.adminUserId = 2 /\ req.userId = 1
  /\ ~Permitted(db, req)
  /\ resp.status = 403

\* C2: a handler changes the store, issues an id or runs a command only
\* after its permission check has returned true; a request of a caller
\* without admin_panel leaves every table as it was.
C2_NoSideEffectBeforeCheck ==
  [][Handled /\ ~CheckPassed(db, req') => NothingDone]_vars

C2_Witness ==
  /\ Replied
  /\ req.op = "POST database-reset" /\ req.confirmText = "RESET DATABASE"
  /\ req.adminUserId = 2 /\ 2 \in DOMAIN db.users
  /\ resp.status = 403
  /\ db = InitialDb /\ execLog = <<>>

\* No row of store d is owned or was created by user u, and u has no row.
UserErased(d, u) ==
  /\ u \notin DOMAIN d.users
  /\ u \notin DOMAIN d.permissions
  /\ \A m \in d.messages : m.userId # u
  /\ \A c \in d.conversations : c.userId # u
  /\ \A t \in d.tokenUsage : t.userId # u
  /\ \A c \in DOMAIN d.inviteCodes : d.inviteCodes[c].createdBy # u
  /\ \A c \in DOMAIN d.accessCodes : d.accessCodes[c].createdBy # u

\* C3: DELETE users is all-or-nothing: answered 200 with the user and every
\* row it owns or created gone, or answered otherwise with the store exactly
\* as before; a failure of any statement of the cascade gives the latter,
\* with status 500.
C3_DeleteAllOrNothing ==
  [][Handled /\ req'.op = "DELETE users"
     => /\ \/ resp'.status = 200 /\ UserErased(db', req'.userId)
           \/ resp'.status # 200 /\ db' = db
        /\ req'.failAt > 2 => resp'.status = 500 /\ db' = db]_vars

C3_Witness ==
  /\ Replied
  /\ req.op = "DELETE users" /\ req.userId = 2 /\ req.failAt = 9
  /\ resp.status = 500
  /\ db = InitialDb

\* C4: an admin who asks to deactivate or to delete their own account is
\* answered 400, and no such request changes the caller's user row.
C4_NoSelfBanOrDelete ==
  [][/\ Handled
     /\ req'.adminUserId = req'.userId
     /\ \/ req'.op = "PATCH users" /\ req'.action = "updateStatus"
           /\ req'.isActive = "false"
        \/ req'.op = "DELETE users"
     => /\ CheckPassed(db, req') => resp'.status = 400
        /\ db'.users = db.users]_vars

C4_Witness ==
  /\ Replied
  /\ req.op = "PATCH users" /\ req.action = "updateStatus"
  /\ req.adminUserId = 1 /\ req.userId = 1 /\ req.isActive = "false"
  /\ resp.status = 400
  /\ db.users[1].isActive

C6_WrongConfirmTextRejected ==
  [][Handled /\ req'.op = "POST database-reset"
       /\ req'.confirmText # "RESET DATABASE"
     => /\ NothingDone
        /\ resp'.status # 200
        /\ CheckPassed(db, req') => resp'.status = 400]_vars

C6_Witness ==
  /\ Replied
  /\ req.op = "POST database-reset" /\ req.adminUserId = 1
  /\ req.confirmText = " RESET DATABASE "
  /\ resp.status = 400
  /\ execLog = <<>> /\ db = InitialDb

\* Command cmd of the log ran to exit code 0.
Succeeded(log, cmd) ==
  \E i \in DOMAIN log : log[i].cmd = cmd /\ log[i].result.outcome = "ok"

\* Command cmd of the log changed the store.
TookEffect(log, cmd) ==
  \E i \in DOMAIN log : log[i].cmd = cmd /\ log[i].result.applied

\* C7: the seed command is started only after the reset command has run to
\* exit code 0; when the reset command fails or times out the seed command
\* is not run and the reply is 500.
C7_SeedOnlyAfterReset ==
  Replied /\ req.op = "POST database-reset" =>
    /\ \A i \in DOMAIN execLog :
         execLog[i].cmd = SeedCommand =>
           /\ i = 2
           /\ execLog[1].cmd = ResetCommand
           /\ execLog[1].result.outcome = "ok"
    /\ execLog # <<>> /\ execLog[1].result.outcome # "ok" =>
         /\ Len(execLog) = 1
         /\ execLog[1].cmd = ResetCommand
         /\ resp.status = 500

C7_Witness ==
  /\ Replied
  /\ req.op = "POST database-reset"
  /\ Len(execLog) = 1
  /\ execLog[1].result.outcome = "timeout"
  /\ resp.status = 500

\* C8 (as stated): after a reset request either both the reset step and the
\* seed step have taken effect or neither has.
C8_ResetAndSeedAllOrNothing ==
  Replied /\ req.op = "POST database-reset" =>
    (TookEffect(execLog, ResetCommand) <=> TookEffect(execLog, SeedCommand))

\* C8 (amended): the seed step takes effect only after the reset step has
\* run to exit code 0 in the same request, and a 200 reply is given only
\* when both have taken effect; a request that leaves the database reset
\* but not reseeded is answered 500.
C8_SeedAfterResetOr500 ==
  Replied /\ req.op = "POST database-reset" =>
    /\ TookEffect(execLog, SeedCommand) => Succeeded(execLog, ResetCommand)
    /\ resp.status = 200 =>
         /\ TookEffect(execLog, ResetCommand)
         /\ TookEffect(execLog, SeedCommand)
         /\ db.seeded
    /\ TookEffect(execLog, ResetCommand) /\ ~TookEffect(execLog, SeedCommand)
         => resp.status = 500 /\ db = EmptyDb

C8_Witness ==
  /\ Replied
  /\ req.op = "POST database-reset"
  /\ Succeeded(execLog, ResetCommand)
  /\ ~TookEffect(execLog, SeedCommand)
  /\ resp.status = 500
  /\ db = EmptyDb

\* What a reset request did: whether each step ran to exit code 0, failed,
\* or was not run.
StepReport(log) ==
  [reset |-> IF Succeeded(log, ResetCommand) THEN "ok" ELSE "failed",
   seed |-> IF Succeeded(log, SeedCommand) THEN "ok"
            ELSE IF Len(log) = 2 THEN "failed" ELSE "not run"]

\* C9: the reply of a reset request that ran a command tells which step
\* succeeded and which failed: no other outcome of the two commands with a
\* different report gives the same reply.
C9_ReplyTellsWhichStepFailed ==
  Replied /\ req.op = "POST database-reset" /\ execLog # <<>> =>
    \A rr \in CmdResults, sr \in CmdResults :
      LET other == RunReset(InitialDb, [reset |-> rr, seed |-> sr])
      IN other.status = resp.status /\ other.body = resp.body
         => StepReport(other.log) = StepReport(execLog)

\* Some user of store d has the username up to letter case, or the email.
Taken(d, username, email) ==
  \E u \in DOMAIN d.users :
    \/ d.users[u].username # "" /\ ToLower(d.users[u].username) = ToLower(username)
    \/ email # "" /\ d.users[u].email = email

\* No two users have usernames equal up to letter case.
UsernamesDistinct ==
  \A u, v \in DOMAIN db.users :
    u # v /\ db.users[u].username # ""
      => ToLower(db.users[u].username) # ToLower(db.users[v].username)

\* C10: a create-user request naming a username some user has up to letter
\* case, or an email some user has, creates no row and is never answered
\* 201; once the caller has passed the permission check it is answered 400.
\* Hence no two users ever have usernames equal up to letter case.
C10_DuplicateUserRejected ==
  /\ []UsernamesDistinct
  /\ [][Handled /\ req'.op = "POST users"
          /\ Taken(db, req'.username, req'.email)
        => /\ NothingDone
           /\ resp'.status # 201
           /\ CheckPassed(db, req') /\ req'.failAt = 0
                => resp'.status = 400]_vars

C10_Witness ==
  /\ Replied
  /\ req.op = "POST users" /\ req.username = "C" /\ req.adminUserId = 1
  /\ req.password = "pw"
  /\ \E u \in DOMAIN db.users : db.users[u].username = "c"
  /\ resp.status = 400

\* The role a create-user request asks for (`role = 'USER'` by default).
RequestedRole(r) == IF r.role = "" THEN "USER" ELSE r.role

\* Store d has the rows a created user uid of the given role is to have: one
\* active user row with the hashed password, one settings row, and a
\* permission row without quota restriction exactly when the role is not
\* ADMIN.
DefaultRows(d, uid, r) ==
  /\ uid \in DOMAIN d.users
  /\ d.users[uid].isActive
  /\ d.users[uid].password = Hash(r.password)
  /\ d.users[uid].password # r.password
  /\ uid \in DOMAIN d.settings
  /\ uid \in DOMAIN d.permissions <=> RequestedRole(r) # "ADMIN"
  /\ uid \in DOMAIN d.permissions =>
       /\ d.permissions[uid].limitType = "none"
       /\ d.permissions[uid].tokenLimit = None

NamesMissingEntity(d, r) ==
  \/ /\ r.op = "DELETE users"
     /\ r.userId # r.adminUserId
     /\ r.userId \notin DOMAIN d.users
  \/ /\ r.op \in {"PATCH codes", "DELETE codes"}
     /\ r.op = "PATCH codes" => r.action = "toggle"
     /\ \/ r.type = "invite" /\ r.codeId \notin DOMAIN d.inviteCodes
        \/ r.type = "access" /\ r.codeId \notin DOMAIN d.accessCodes

\* C12: a request of a permitted caller that names a user or a code the
\* store does not have (DELETE users, PATCH codes toggle, DELETE codes of
\* either type) is answered 404 and changes nothing.
C12_MissingEntityGets404 ==
  [][Handled /\ CheckPassed(db, req') /\ req'.failAt = 0
       /\ NamesMissingEntity(db, req')
     => resp'.status = 404 /\ NothingDone]_vars

\* The request carries a discriminator its handler does not recognise.  GET
\* codes reads an absent type as "invite".
Unrecognised(r) ==
  \/ r.op \in {"POST codes", "DELETE codes", "PATCH codes"}
       /\ r.type \notin {"invite", "access"}
  \/ r.op = "GET codes" /\ r.type \notin {"", "invite", "access"}
  \/ r.op = "PATCH codes" /\ r.action # "toggle"
  \/ r.op = "PATCH users"
       /\ r.action \notin {"updateStatus", "updateAccessCodePermission",
                           "updatePermissions"}

\* C13: a request of a permitted caller whose type (codes endpoints) or
\* action (PATCH codes, PATCH users) is not one the handler recognises is
\* answered 400 and changes nothing.
C13_UnrecognisedDiscriminatorGets400 ==
  [][Handled /\ CheckPassed(db, req') /\ Unrecognised(req')
     => resp'.status = 400 /\ NothingDone]_vars

C13_Witness ==
  /\ Replied
  /\ req.op = "PATCH users" /\ req.action = "promote"
  /\ req.adminUserId = 1 /\ req.userId = 2
  /\ resp.status = 400
  /\ db = InitialDb

\* The message each handler's catch block replies with.
CatchMessage(op) ==
  CASE op = "GET users" -> "Failed to fetch users"
    [] op = "POST users" -> "Failed to create user"
    [] op = "PATCH users" -> "Failed to update user"
    [] op = "DELETE users" -> "Failed to delete user"
    [] op = "GET codes" -> "Failed to fetch codes"
    [] op = "POST codes" -> "Failed to create code"
    [] op = "DELETE codes" -> "Failed to delete code"
    [] op = "PATCH codes" -> "Failed to update code"
    [] op = "GET database-reset" -> "Failed to get database reset information"
    [] op = "POST database-reset" -> "Failed to reset database"

\* Some command of the log did not run to exit code 0.
CommandFailed(log) ==
  \E i \in DOMAIN log : log[i].result.outcome # "ok"

\* C14: every handler answers a downstream failure with 500: a request in
\* which the permission check or a store operation throws, or a shell
\* command fails, is answered 500, every request is answered with a status
\* of the contract, and a 500 that no shell command caused carries the fixed
\* message of the handler and nothing else.
C14_FailureAnswered500 ==
  [][Handled
     => /\ req'.failAt > 0 => resp'.status = 500
        /\ CommandFailed(execLog') => resp'.status = 500
        /\ resp'.status \in {200, 201, 400, 403, 404, 500}
        /\ resp'.status = 500 /\ execLog' = <<>>
             => resp'.body = [error |-> CatchMessage(req'.op)]]_vars

C14_Witness ==
  /\ Replied
  /\ req.op = "DELETE users" /\ req.adminUserId = 1 /\ req.userId = 2
  /\ req.failAt = 5
  /\ resp.status = 500
  /\ resp.body = [error |-> "Failed to delete user"]

\* The log is the reset command then the seed command, both run to exit
\* code 0.
BothRanInOrder(log) ==
  /\ Len(log) = 2
  /\ log[1].cmd = ResetCommand /\ log[1].result.outcome = "ok"
  /\ log[2].cmd = SeedCommand /\ log[2].result.outcome = "ok"

\* C17: a reset request is answered 200 exactly when the reset command and
\* then the seed command ran to exit code 0, whatever the two wrote on
\* stderr.
C17_OkExactlyWhenBothCommandsRan ==
  Replied /\ req.op = "POST database-reset" =>
    (resp.status = 200 <=> BothRanInOrder(execLog))

C17_Witness ==
  /\ Replied
  /\ req.op = "POST database-reset"
  /\ resp.status = 200
  /\ execLog[1].result.stderr = "warn"
  /\ execLog[2].result.stderr = "warn"
  /\ db = [EmptyDb EXCEPT !.seeded = TRUE]

\* p is the first 8 characters (all of them when there are fewer) of e
\* without its leading and trailing spaces.
IsCutOfTrimmed(p, e) ==
  \E i, j \in 0 .. Len(e) :
    /\ i + j <= Len(e)
    /\ \A k \in 1 .. i : e[k] = " "
    /\ \A k \in (Len(e) - j + 1) .. Len(e) : e[k] = " "
    /\ LET t == SubSeq(e, i + 1, Len(e) - j)
       IN /\ t # <<>> => t[1] # " " /\ t[Len(t)] # " "
          /\ Len(p) = IF Len(t) < 8 THEN Len(t) ELSE 8
          /\ \A k \in 1 .. Len(p) : p[k] = t[k]

\* C15: the value handleTitleSave passes to onChatTitleChange is the first 8
\* characters of the edited title without its leading and trailing
\* whitespace, so it is at most 8 characters long.
C15_SavedTitleTrimmedAndCut ==
  title.passed # None =>
    /\ Len(title.passed[1]) <= 8
    /\ IsCutOfTrimmed(title.passed[1], title.editableTitle)

C15_Witness ==
  /\ ~title.isEditingTitle
  /\ title.editableTitle = <<" ", "a", "b", " ", "a", "b", "a", "b", "a", "b">>
  /\ title.passed = Some(<<"a", "b", " ", "a", "b", "a", "b", "a">>)

\* C16: recording usage at time now zeroes tokenUsed and sets lastResetAt to
\* now before applying the usage exactly when now - lastResetAt exceeds the
\* limit period (daily, monthly, quarterly, yearly); otherwise it only adds
\* the usage to the counter.
C16_ResetExactlyWhenPeriodExceeded ==
  [][quota'.recorded # quota.recorded
     => LET elapsed == quota'.now - quota.lastResetAt
            limit == CASE quota.limitPeriod = "daily" -> 1
                       [] quota.limitPeriod = "monthly" -> 30
                       [] quota.limitPeriod = "quarterly" -> 90
                       [] quota.limitPeriod = "yearly" -> 365
            added == quota'.tokenUsed - quota.tokenUsed
        IN /\ quota'.limitPeriod = quota.limitPeriod
           /\ IF elapsed > limit
              THEN /\ quota'.lastResetAt = quota'.now
                   /\ quota'.tokenUsed \in TokenCounts
              ELSE /\ quota'.lastResetAt = quota.lastResetAt
                   /\ added \in TokenCounts]_vars

C16_Witness ==
  /\ quota.limitPeriod = "monthly"
  /\ quota.recorded = 2
  /\ quota.now = 31
  /\ quota.lastResetAt = 31
  /\ quota.tokenUsed = 1

\* The flag a toggle of target t flips, in store d.
Flag(d, t) ==
  IF t.type = "invite" THEN d.inviteCodes[t.codeId].isUsed
  ELSE d.accessCodes[t.codeId].isActive

\* The toggle requests on target t that were answered 200.
Toggled(t) ==
  {c \in DOMAIN clients :
     /\ clients[c].at = "done" /\ clients[c].status = 200
     /\ clients[c].type = t.type /\ clients[c].codeId = t.codeId}

\* C18: toggle requests on one code are linearizable: when k requests that
\* ran at the same time have all been answered 200, the flag is its original
\* value negated k times.
C18_TogglesLinearizable ==
  AllDone =>
    \A t \in ToggleTargets :
      Flag(db, t) = IF Cardinality(Toggled(t)) % 2 = 1
                    THEN ~Flag(InitialDb, t) ELSE Flag(InitialDb, t)

\* C19: username uniqueness up to letter case holds under concurrency: while
\* create-user requests run at the same time, no two users ever have
\* usernames equal up to letter case.
C19_NoCaseDuplicateUnderConcurrency ==
  \A u, v \in DOMAIN db.users :
    u # v => ToLower(db.users[u].username) # ToLower(db.users[v].username)

\* User u of store d is active and holds admin_panel.
ActiveAdmin(d, u) ==
  /\ u \in DOMAIN d.users
  /\ d.users[u].isActive
  /\ checkUserPermission(d, u, "admin_panel")

\* C20: admin lock-out is impossible: from a store with an active holder of
\* admin_panel, however DELETE users and PATCH updateStatus requests
\* interleave, some active holder of admin_panel remains.
C20_AnActiveAdminRemains ==
  \E u \in DOMAIN db.users : ActiveAdmin(db, u)

\* C21: creating a user is atomic on failure: a POST users request that is
\* answered 500 leaves no user row and no settings row behind, so the users
\* and the settings of the store are as the request found them.
C21_FailedCreateLeavesNoRows ==
  [][Handled /\ req'.op = "POST users" /\ resp'.status = 500
     => db'.users = db.users /\ db'.settings = db.settings]_vars

\* No user row of store d names a user or a code that d does not have:
\* hostUserId and invitedBy name users, usedInviteCode and usedAccessCode
\* hold the code string of an invite code and of an access code.
NoDanglingReference(d) ==
  \A u \in DOMAIN d.users :
    LET row == d.users[u] IN
    /\ row.hostUserId # 0 => row.hostUserId \in DOMAIN d.users
    /\ row.invitedBy # 0 => row.invitedBy \in DOMAIN d.users
    /\ row.usedInviteCode # None =>
         \E c \in DOMAIN d.inviteCodes :
           d.inviteCodes[c].code = row.usedInviteCode[1]
    /\ row.usedAccessCode # None =>
         \E c \in DOMAIN d.accessCodes :
           d.accessCodes[c].code = row.usedAccessCode[1]

\* C22: referential integrity after deletion: a successful DELETE users or
\* DELETE codes request on a store without dangling references leaves a
\* store without dangling references, so no remaining user row refers to
\* the deleted user or the deleted code.
C22_DeletionLeavesNoDanglingReference ==
  [][Handled /\ req'.op \in {"DELETE users", "DELETE codes"}
       /\ resp'.status = 200 /\ NoDanglingReference(db)
     => NoDanglingReference(db')]_vars

\* C23: every invite code created through POST codes with type "invite" is
\* usable under the counter rule: whatever maxUses the request carries
\* (absent, zero, positive or negative), the stored row has maxUses >= 1,
\* currentUses = 0 and isUsed = FALSE.
C23_CreatedInviteCodeIsUsable ==
  [][Handled /\ req'.op = "POST codes" /\ req'.type = "invite"
       /\ resp'.status = 200
     => /\ nextCodeId \in DOMAIN db'.inviteCodes
        /\ db'.inviteCodes[nextCodeId].maxUses >= 1
        /\ db'.inviteCodes[nextCodeId].currentUses = 0
        /\ db'.inviteCodes[nextCodeId].isUsed = FALSE]_vars

\* A guard or confirmation check of the handler of r refuses the request:
\* the self-ban guard, the self-delete guard, the confirmation text of the
\* database reset, or a type or action the handler does not recognise.
GuardRefuses(r) ==
  \/ r.op = "PATCH users" /\ r.action = "updateStatus"
       /\ SelfBan(r.adminUserId, r.userId, r.isActive)
  \/ r.op = "DELETE users" /\ SelfDelete(r.adminUserId, r.userId)
  \/ r.op = "POST database-reset" /\ ~ConfirmTextOk(r.confirmText)
  \/ Unrecognised(r)

\* The status the first failing check of the fixed order gives a request r
\* on store d, 0 when no check of the order fails: required fields (400),
\* permission (403), guards and confirmation (400), existence (404).
FirstFailingCheck(d, r) ==
  IF ~HasRequiredFields(r) THEN 400
  ELSE IF ~Permitted(d, r) THEN 403
  ELSE IF GuardRefuses(r) THEN 400
  ELSE IF NamesMissingEntity(d, r) THEN 404
  ELSE 0

\* C24: the reply of every handler is determined by the first failing check
\* in the order required fields (400), permission (403), guards and
\* confirmation (400), existence (404): when no downstream call throws and
\* some check of the order fails, the status is that of the first one that
\* fails, and a missing required field is answered 400 whoever calls.
C24_FirstFailingCheckDecides ==
  [][Handled =>
       /\ ~HasRequiredFields(req') => resp'.status = 400
       /\ req'.failAt = 0 /\ FirstFailingCheck(db, req') # 0
            => resp'.status = FirstFailingCheck(db, req')]_vars

\* Every character of s is a space.
OnlySpaces(s) == \A k \in 1 .. Len(s) : s[k] = " "

\* Text e2 is text e with its last character deleted or one character added
\* at its end, or e itself.
TypedFrom(e, e2) ==
  \/ e2 = e
  \/ Len(e2) = Len(e) + 1 /\ SubSeq(e2, 1, Len(e)) = e
  \/ Len(e) = Len(e2) + 1 /\ SubSeq(e, 1, Len(e2)) = e2

ExpectedGroup(ms, i) ==
  IF ms[i].group = None \/ ms[i].group = Some("") THEN DefaultGroup
  ELSE ms[i].group[1]

\* Grouping gm is a partition of list ms: every model of ms is in the group
\* of its name and in no other, no group is listed twice, no group is
\* empty, and the models of a group are in the order of ms.
IsPartition(ms, gm) ==
  /\ \A i \in DOMAIN ms :
       \E g \in DOMAIN gm :
         /\ gm[g].groupName = ExpectedGroup(ms, i)
         /\ \E j \in DOMAIN gm[g].models : gm[g].models[j].id = ms[i].id
  /\ \A g \in DOMAIN gm :
       /\ gm[g].models # <<>>
       /\ \A j \in DOMAIN gm[g].models :
            \E i \in DOMAIN ms :
              /\ ms[i].id = gm[g].models[j].id
              /\ ms[i].name = gm[g].models[j].name
              /\ ExpectedGroup(ms, i) = gm[g].groupName
       /\ \A j, k \in DOMAIN gm[g].models :
            j < k => gm[g].models[j].id < gm[g].models[k].id
  /\ \A g, h \in DOMAIN gm : gm[g].groupName = gm[h].groupName => g = h

\* C26: the grouping of the model picker is a partition: whatever order
\* sortGroupsByUserOrder gives the group names, getGroupedModels returns a
\* grouping in which every supplied model is in exactly one group, the one
\* of its group field or the default group when the field is empty or
\* absent, no group is empty, and every group keeps the input order.
C26_GroupingIsPartition ==
  picker.rendered =>
    ~picker.threw /\ IsPartition(picker.models, picker.groupedModels)

====
